---- MODULE Spec2Model ----
(***************************************************************************)
(* A model of the weather agent's tool operations (weather-tool.ts) and of *)
(* its evaluation scorers (weather-scorer.ts).                             *)
(*                                                                         *)
(* Numbers read from the weather provider (temperature, precipitation,     *)
(* wind speed, ...) are JavaScript numbers; the model keeps them as        *)
(* integers counting hundredths, so 20.01 is 2001 and 22 is 2200.  Deg(n)  *)
(* turns a whole number of the source into that unit.                      *)
(*                                                                         *)
(* An optional value (a parameter that may be omitted, a field that may be *)
(* missing) is None or Some(v).  A string that may be JavaScript's         *)
(* undefined is the string Undefined.  A number that may be JavaScript's   *)
(* undefined (a field the provider's payload leaves out) is the value      *)
(* UndefinedNumber, which lies outside every range of readings; the        *)
(* relational operators of the source are lt, le, gt, ge, which are false  *)
(* on it as JavaScript's are on undefined.                                  *)
(***************************************************************************)
EXTENDS Integers, Sequences, FiniteSets, TLC

VARIABLES
    pc,             \* where the running tool operation stands
    op,             \* the tool being executed
    input,          \* the input the tool was called with
    args,           \* that input once validated by the tool's schema (context)
    calls,          \* the outbound fetch calls issued by this execution, in order
    geocodingData,  \* geocodeLocation's local: the body the geocoding provider answered with
    geo,            \* what geocodeLocation returned
    data,           \* the body the weather provider answered with
    weather,        \* what getCurrentWeather returned
    result,         \* what the tool's execute returned
    error,          \* the error the execution ended with
    scorer,         \* the scorer whose generateScore ran last
    results,        \* the `results` object generateScore was given
    score,          \* what generateScore returned
    clothingLog,    \* the calls of getClothingRecommendations made in a row, with their outputs
    literalArrays,  \* per temperature rung, the array its `accessories = [...]` last
                    \* evaluated to, with what was pushed onto it since
    translated      \* the last call of getWeatherCondition: its code and what it returned

toolVars == <<pc, op, input, args, calls, geocodingData, geo, data, weather, result, error>>
scorerVars == <<scorer, results, score>>
clothingVars == <<clothingLog, literalArrays>>
translatorVars == <<translated>>
vars == <<pc, op, input, args, calls, geocodingData, geo, data, weather, result, error,
          scorer, results, score, clothingLog, literalArrays, translated>>

----------------------------------------------------------------------------
(* Values *)

Deg(n) == n * 100

None == [present |-> FALSE]
Some(v) == [present |-> TRUE, v |-> v]

Null == [null |-> TRUE]
Undefined == "undefined"
NoError == "none"
NoScore == <<"none">>

\* what reading a numeric field yields when the object has no such field
UndefinedNumber == -1000000

isDefined(x) == x /= UndefinedNumber

\* a < b, a <= b, a > b, a >= b of the source, b a numeric literal: undefined
\* converts to NaN and every comparison with NaN is false
lt(a, b) == isDefined(a) /\ a < b
le(a, b) == isDefined(a) /\ a <= b
gt(a, b) == isDefined(a) /\ a > b
ge(a, b) == isDefined(a) /\ a >= b

Min(a, b) == IF a <= b THEN a ELSE b
Max(a, b) == IF a >= b THEN a ELSE b

----------------------------------------------------------------------------
(* Bounds and input sets *)

\* the longest result list the geocoding provider answers with
MaxGeoResults == 2

Places ==
    { [name |-> "Paris", country |-> "France", latitude |-> 4885, longitude |-> 235],
      [name |-> "Paris", country |-> "United States", latitude |-> 3366, longitude |-> -9555] }

LocationInputs == {"Paris", "Atlantis"}

\* a body of the geocoding provider: `results` missing, or a list of places
GeocodingBodies ==
    {[results |-> None]} \cup
    {[results |-> Some(s)] : s \in UNION {[1..n -> Places] : n \in 0..MaxGeoResults}}

TemperatureInputs ==
    {-1100, -1000, -500, -1, 0, 500, 999, 1000, 1499, 1500, 1999, 2000,
     2200, 2300, 2500, 2501, 2800, 3000, 3500, 4000, 4001}
PrecipitationInputs == {0, 500, 501, 2000, 2001}
WindSpeedInputs == {3000, 3001}
WeatherCodeInputs == {0, 2, 3, 4}

\* the `current` object of the provider's body for a reading
currentObject(t, w, c, p) ==
    [temperature_2m |-> t,
     apparent_temperature |-> t - 100,
     relative_humidity_2m |-> 6000,
     wind_speed_10m |-> w,
     wind_gusts_10m |-> w + 500,
     weather_code |-> c,
     precipitation |-> p,
     uv_index |-> IF c = 0 THEN Some(500) ELSE None]

\* the fields of `current` that CurrentWeatherResponse declares without `?`
RequiredCurrentFields ==
    {"temperature_2m", "apparent_temperature", "relative_humidity_2m",
     "wind_speed_10m", "wind_gusts_10m", "weather_code", "precipitation"}

\* the object with the fields of `missing` left out: reading one of them
\* yields undefined
leftOut(current, missing) ==
    [f \in DOMAIN current |->
        IF f \in missing THEN UndefinedNumber ELSE current[f]]

\* a `current` object that lacks one required field, or all of them
PartialCurrentObjects ==
    LET full == currentObject(2200, 3001, 0, 2001)
    IN  {leftOut(full, {f}) : f \in RequiredCurrentFields}
        \cup {leftOut(full, RequiredCurrentFields)}

\* a body of the weather provider for the `current=` request: an error body
\* without `current`, the current observation, or an observation with
\* required fields missing
CurrentBodies ==
    {[current |-> None]} \cup
    {[current |-> Some(currentObject(t, w, c, p))] :
        t \in TemperatureInputs, w \in WindSpeedInputs,
        c \in WeatherCodeInputs, p \in PrecipitationInputs} \cup
    {[current |-> Some(o)] : o \in PartialCurrentObjects}

\* Dates are ISO day strings in the source; the model keeps a date as its day
\* number, which orders as the string does.
ForecastStartDays == {20000, 20364}
ForecastSeeds == {0, 1}
CodeCycle == <<0, 3, 61, 4, 95, 1, 2>>

\* The `daily` object the weather provider answers a forecast_days = n request
\* with: n days from `start` on, every array n long.
dailyArrays(n, start, seed) ==
    [time |-> [i \in 1..n |-> start + (i - 1)],
     temperature_2m_max |-> [i \in 1..n |-> Deg(15 + seed + i)],
     temperature_2m_min |-> [i \in 1..n |-> Deg(5 + seed - i)],
     weather_code |-> [i \in 1..n |-> CodeCycle[((seed + 2 * i) % Len(CodeCycle)) + 1]],
     precipitation_probability_max |-> [i \in 1..n |-> 10 * i + seed],
     wind_speed_10m_max |-> [i \in 1..n |-> Deg(10 + 3 * i)],
     uv_index_max |-> [i \in 1..n |-> Deg(seed + (i % 4))]]

\* a body of the weather provider for the `daily=` request: an error body
\* without `daily`, or the forecast of the requested number of days
ForecastBodies(call) ==
    {[daily |-> None]} \cup
    {[daily |-> Some(dailyArrays(call.forecast_days, start, seed))] :
        start \in ForecastStartDays, seed \in ForecastSeeds}

AllForecastBodies == UNION {ForecastBodies([forecast_days |-> n]) : n \in 1..7}

DaysInputs == {None} \cup {Some(d) : d \in 1..7}
InterestsInputs == {None, Some(<<>>), Some(<<"hiking", "dining">>), Some(<<"Museum">>)}

HikingWord == <<"h", "i", "k", "i", "n", "g">>
ActivityInputs ==
    {None,
     Some(<<"g", "o", " ", "H", "i", "K", "I", "N", "G">>),
     Some(<<"b", "i", "k", "i", "n", "g">>)}

----------------------------------------------------------------------------
(* Strings of the activity parameter, as sequences of characters *)

LowerChar(c) ==
    CASE c = "H" -> "h"
      [] c = "I" -> "i"
      [] c = "K" -> "k"
      [] c = "N" -> "n"
      [] c = "G" -> "g"
      [] OTHER -> c

toLowerCase(s) == [i \in 1..Len(s) |-> LowerChar(s[i])]

includes(s, sub) ==
    \E i \in 0..(Len(s) - Len(sub)) : SubSeq(s, i + 1, i + Len(sub)) = sub

\* Array.prototype.includes on a list of strings
listIncludes(list, x) == \E i \in 1..Len(list) : list[i] = x

----------------------------------------------------------------------------
(* Helper functions of weather-tool.ts *)

KnownWeatherCodes ==
    {0, 1, 2, 3, 45, 48, 51, 53, 55, 56, 57, 61, 63, 65, 66, 67,
     71, 73, 75, 77, 80, 81, 82, 85, 86, 95, 96, 99}

conditionsTable(code) ==
    CASE code = 0 -> "Clear sky"
      [] code = 1 -> "Mainly clear"
      [] code = 2 -> "Partly cloudy"
      [] code = 3 -> "Overcast"
      [] code = 45 -> "Foggy"
      [] code = 48 -> "Depositing rime fog"
      [] code = 51 -> "Light drizzle"
      [] code = 53 -> "Moderate drizzle"
      [] code = 55 -> "Dense drizzle"
      [] code = 56 -> "Light freezing drizzle"
      [] code = 57 -> "Dense freezing drizzle"
      [] code = 61 -> "Slight rain"
      [] code = 63 -> "Moderate rain"
      [] code = 65 -> "Heavy rain"
      [] code = 66 -> "Light freezing rain"
      [] code = 67 -> "Heavy freezing rain"
      [] code = 71 -> "Slight snow fall"
      [] code = 73 -> "Moderate snow fall"
      [] code = 75 -> "Heavy snow fall"
      [] code = 77 -> "Snow grains"
      [] code = 80 -> "Slight rain showers"
      [] code = 81 -> "Moderate rain showers"
      [] code = 82 -> "Violent rain showers"
      [] code = 85 -> "Slight snow showers"
      [] code = 86 -> "Heavy snow showers"
      [] code = 95 -> "Thunderstorm"
      [] code = 96 -> "Thunderstorm with slight hail"
      [] code = 99 -> "Thunderstorm with heavy hail"

\* (variant: the fallback also taken for the falsy code 0)
getWeatherConditionFalsyCode(code) ==
    IF code /= 0 /\ code \in KnownWeatherCodes THEN conditionsTable(code) ELSE "Unknown"

\* conditions[code] || "Unknown"
getWeatherCondition(code) ==
    IF code \in KnownWeatherCodes THEN conditionsTable(code) ELSE "Unknown"

\* The reason templates: the text of the template and the values interpolated
\* into it (the condition label is interpolated lower-cased).
Reason(template, temperature, lowerCasedConditions) ==
    [template |-> template, temperature |-> temperature,
     lowerCasedConditions |-> lowerCasedConditions]

getActivityReason(activity, w) ==
    CASE activity = "Hiking" ->
            Reason("Perfect temperature of ${temperature}C and ${conditions} for hiking",
                   Some(w.temperature), Some(w.conditions))
      [] activity = "Beach" ->
            Reason("Warm ${temperature}C and clear skies ideal for beach activities",
                   Some(w.temperature), None)
      [] activity = "Cycling" ->
            Reason("Comfortable conditions for cycling with mild temperatures", None, None)
      [] activity = "Picnic" ->
            Reason("Pleasant weather for outdoor dining and relaxation", None, None)
      [] activity = "Museum" ->
            Reason("Great indoor activity regardless of weather conditions", None, None)
      [] activity = "Shopping" ->
            Reason("Comfortable indoor activity suitable for any weather", None, None)
      [] activity = "Restaurant" ->
            Reason("Enjoy dining in climate-controlled comfort", None, None)
      [] OTHER -> Reason("Suitable activity for current conditions", None, None)

getIndoorAlternative(activity) ==
    CASE activity = "Hiking" -> "Visit a nature museum or indoor botanical garden"
      [] activity = "Beach" -> "Visit an indoor pool or aquatic center"
      [] activity = "Cycling" -> "Try a stationary bike at a gym"
      [] activity = "Picnic" -> "Have an indoor picnic or visit a food hall"
      [] OTHER -> Undefined

----------------------------------------------------------------------------
(* geocodeLocation *)

\* const geocodingUrl = `...search?name=${encodeURIComponent(location)}&count=1`
geocodingCall(location) == [api |-> "geocoding", name |-> location, count |-> 1]

\* !geocodingData.results?.[0]
noFirstResult(body) == ~body.results.present \/ Len(body.results.v) = 0

\* return geocodingData.results[0]
firstResult(body) == body.results.v[1]

----------------------------------------------------------------------------
(* getCurrentWeather *)

currentFields ==
    <<"temperature_2m", "apparent_temperature", "relative_humidity_2m",
      "wind_speed_10m", "wind_gusts_10m", "weather_code", "precipitation", "uv_index">>

currentCall(place) ==
    [api |-> "forecast", latitude |-> place.latitude, longitude |-> place.longitude,
     current |-> currentFields]

\* the record getCurrentWeather returns, from the body's `current` object
weatherRecord(current, place) ==
    [temperature |-> current.temperature_2m,
     feelsLike |-> current.apparent_temperature,
     humidity |-> current.relative_humidity_2m,
     windSpeed |-> current.wind_speed_10m,
     windGust |-> current.wind_gusts_10m,
     precipitation |-> current.precipitation,
     uvIndex |-> current.uv_index,
     conditions |-> getWeatherCondition(current.weather_code),
     location |-> place.name,
     country |-> place.country]

----------------------------------------------------------------------------
(* getWeatherForecast *)

DefaultDays == 3

dailyFields ==
    <<"temperature_2m_max", "temperature_2m_min", "weather_code",
      "precipitation_probability_max", "wind_speed_10m_max", "uv_index_max">>

\* days: number = 3
daysOrDefault(days) == IF days.present THEN days.v ELSE DefaultDays

\* (variant: the URL always asks for the default number of days)
forecastCallDefaultDays(place, days) ==
    [api |-> "forecast", latitude |-> place.latitude, longitude |-> place.longitude,
     daily |-> dailyFields, timezone |-> "auto", forecast_days |-> DefaultDays]

\* const forecastUrl = `...&timezone=auto&forecast_days=${days}`
forecastCall(place, days) ==
    [api |-> "forecast", latitude |-> place.latitude, longitude |-> place.longitude,
     daily |-> dailyFields, timezone |-> "auto", forecast_days |-> daysOrDefault(days)]

\* one ForecastDay, from index `index` of the provider's arrays
forecastDay(daily, index) ==
    [date |-> daily.time[index],
     high |-> daily.temperature_2m_max[index],
     low |-> daily.temperature_2m_min[index],
     conditions |-> getWeatherCondition(daily.weather_code[index]),
     precipitationChance |-> daily.precipitation_probability_max[index],
     windSpeed |-> daily.wind_speed_10m_max[index],
     uvIndex |-> daily.uv_index_max[index]]

\* data.daily.time.map((date, index) => ({...}))
forecastResult(daily, place) ==
    [location |-> place.name,
     country |-> place.country,
     forecast |-> [index \in 1..Len(daily.time) |-> forecastDay(daily, index)]]

----------------------------------------------------------------------------
(* getActivityRecommendations *)

allActivities ==
    << [activity |-> "Hiking", tempRange |-> <<10, 30>>,
        conditions |-> <<"Clear sky", "Mainly clear", "Partly cloudy">>],
       [activity |-> "Beach", tempRange |-> <<20, 35>>,
        conditions |-> <<"Clear sky", "Mainly clear">>],
       [activity |-> "Cycling", tempRange |-> <<5, 30>>,
        conditions |-> <<"Clear sky", "Mainly clear", "Partly cloudy">>],
       [activity |-> "Picnic", tempRange |-> <<15, 28>>,
        conditions |-> <<"Clear sky", "Mainly clear", "Partly cloudy">>],
       [activity |-> "Museum", tempRange |-> <<-10, 40>>, conditions |-> <<"All">>],
       [activity |-> "Shopping", tempRange |-> <<-10, 40>>, conditions |-> <<"All">>],
       [activity |-> "Restaurant", tempRange |-> <<-10, 40>>, conditions |-> <<"All">>] >>

\* (variant: the range bounds excluded)
tempSuitableExclusive(act, w) ==
    /\ gt(w.temperature, Deg(act.tempRange[1]))
    /\ lt(w.temperature, Deg(act.tempRange[2]))

\* temperature >= tempRange[0] && temperature <= tempRange[1]
tempSuitable(act, w) ==
    /\ ge(w.temperature, Deg(act.tempRange[1]))
    /\ le(w.temperature, Deg(act.tempRange[2]))

conditionsSuitable(act, w) ==
    \/ listIncludes(act.conditions, "All")
    \/ listIncludes(act.conditions, w.conditions)

ExcellentMargin == 5
FairPrecipitation == 5

\* (variant: "excellent" anywhere inside the range)
suitabilityNoMargin(act, w) ==
    IF /\ ge(w.temperature, Deg(act.tempRange[1]))
       /\ le(w.temperature, Deg(act.tempRange[2]))
    THEN "excellent"
    ELSE IF gt(w.precipitation, Deg(FairPrecipitation)) THEN "fair" ELSE "good"

\* (variant: rain tested before the temperature margin)
suitabilityRainFirst(act, w) ==
    IF gt(w.precipitation, Deg(FairPrecipitation)) THEN "fair"
    ELSE IF /\ ge(w.temperature, Deg(act.tempRange[1] + ExcellentMargin))
            /\ le(w.temperature, Deg(act.tempRange[2] - ExcellentMargin))
    THEN "excellent"
    ELSE "good"

\* "excellent" 5 degrees inside both bounds, else "fair" when it rains, else "good"
suitabilityOf(act, w) ==
    IF /\ ge(w.temperature, Deg(act.tempRange[1] + ExcellentMargin))
       /\ le(w.temperature, Deg(act.tempRange[2] - ExcellentMargin))
    THEN "excellent"
    ELSE IF gt(w.precipitation, Deg(FairPrecipitation)) THEN "fair" ELSE "good"

TopCount == 5

\* (variant: nothing cut)
topSliceAll(list) == list

\* recommendations.slice(0, 5)
topSlice(list) == SubSeq(list, 1, Min(TopCount, Len(list)))

\* allActivities.filter(...)
survivors(w) ==
    LET keep(act) == tempSuitable(act, w) /\ conditionsSuitable(act, w)
    IN  SelectSeq(allActivities, keep)

\* (variant: the recommendations are narrowed to the interests given)
activityResultByInterests(w, interests) ==
    LET wanted(act) ==
            \/ ~interests.present
            \/ interests.v = <<>>
            \/ listIncludes(interests.v, act.activity)
        keep(act) == tempSuitable(act, w) /\ conditionsSuitable(act, w) /\ wanted(act)
        kept == SelectSeq(allActivities, keep)
        recommendations ==
            [i \in 1..Len(kept) |->
                [activity |-> kept[i].activity,
                 suitability |-> suitabilityOf(kept[i], w),
                 reason |-> getActivityReason(kept[i].activity, w),
                 indoorAlternative |-> getIndoorAlternative(kept[i].activity)]]
    IN  [location |-> w.location,
         currentConditions |-> w.conditions,
         temperature |-> w.temperature,
         recommendations |-> topSlice(recommendations)]

\* the `interests` parameter is read nowhere in the body
activityResult(w, interests) ==
    LET kept == survivors(w)
        recommendations ==
            [i \in 1..Len(kept) |->
                [activity |-> kept[i].activity,
                 suitability |-> suitabilityOf(kept[i], w),
                 reason |-> getActivityReason(kept[i].activity, w),
                 indoorAlternative |-> getIndoorAlternative(kept[i].activity)]]
    IN  [location |-> w.location,
         currentConditions |-> w.conditions,
         temperature |-> w.temperature,
         recommendations |-> topSlice(recommendations)]

----------------------------------------------------------------------------
(* getWeatherAlerts *)

HeavyRainThreshold == 20
HighWindsThreshold == 30

heavyRainAlert ==
    [severity |-> "moderate", event |-> "Heavy Rain",
     description |-> "Heavy rainfall expected in the area",
     instructions |-> "Avoid low-lying areas and drive carefully"]

highWindsAlert ==
    [severity |-> "severe", event |-> "High Winds",
     description |-> "Strong winds expected",
     instructions |-> "Secure outdoor objects and avoid wooded areas"]

\* (variant: the threshold itself alerts)
heavyRainInclusive(w) == ge(w.precipitation, Deg(HeavyRainThreshold))

heavyRain(w) == gt(w.precipitation, Deg(HeavyRainThreshold))

highWinds(w) == gt(w.windSpeed, Deg(HighWindsThreshold))

\* (variant: the wind check before the precipitation check)
alertsResultWindFirst(w) ==
    LET alerts == (IF highWinds(w) THEN <<highWindsAlert>> ELSE <<>>)
                  \o (IF heavyRain(w) THEN <<heavyRainAlert>> ELSE <<>>)
    IN  [location |-> w.location,
         country |-> w.country,
         alerts |-> alerts,
         hasAlerts |-> Len(alerts) > 0]

\* the precipitation check pushes first, the wind check second
alertsResult(w) ==
    LET alerts == (IF heavyRain(w) THEN <<heavyRainAlert>> ELSE <<>>)
                  \o (IF highWinds(w) THEN <<highWindsAlert>> ELSE <<>>)
    IN  [location |-> w.location,
         country |-> w.country,
         alerts |-> alerts,
         hasAlerts |-> Len(alerts) > 0]

----------------------------------------------------------------------------
(* getClothingRecommendations *)

RainGearPrecipitation == 5

\* (variant: each rung tests <=)
temperatureTierInclusive(w) ==
    IF le(w.temperature, Deg(0)) THEN 1
    ELSE IF le(w.temperature, Deg(10)) THEN 2
    ELSE IF le(w.temperature, Deg(20)) THEN 3
    ELSE 4

\* the rung of the temperature ladder taken: 1 (< 0), 2 (< 10), 3 (< 20), 4 (else)
temperatureTier(w) ==
    IF lt(w.temperature, Deg(0)) THEN 1
    ELSE IF lt(w.temperature, Deg(10)) THEN 2
    ELSE IF lt(w.temperature, Deg(20)) THEN 3
    ELSE 4

tierLayers(tier) ==
    CASE tier = 1 -> <<"Thermal base layer", "Insulated mid-layer", "Waterproof jacket">>
      [] tier = 2 -> <<"Long-sleeve shirt", "Fleece or sweater", "Light jacket">>
      [] tier = 3 -> <<"T-shirt", "Light jacket or hoodie">>
      [] tier = 4 -> <<"T-shirt or light top">>

tierAccessories(tier) ==
    CASE tier = 1 -> <<"Warm hat", "Gloves", "Scarf">>
      [] tier = 2 -> <<"Light hat", "Gloves if windy">>
      [] tier = 3 -> <<>>
      [] tier = 4 -> <<"Sunglasses", "Hat for sun protection">>

tierFootwear(tier) ==
    CASE tier = 1 -> "Insulated waterproof boots"
      [] tier = 2 -> "Closed shoes or boots"
      [] tier = 3 -> "Sneakers or comfortable shoes"
      [] tier = 4 -> "Sandals or breathable shoes"

\* (variant: one array per rung, shared by every call)
accessoriesShared(tier) == literalArrays[tier]

\* accessories = [...]: the literal evaluates to a new array on every call
accessoriesLiteral(tier) == tierAccessories(tier)

\* activity?.toLowerCase().includes("hiking")
isHiking(activity) == activity.present /\ includes(toLowerCase(activity.v), HikingWord)

clothingResult(w, activity) ==
    LET tier == temperatureTier(w)
        rain == gt(w.precipitation, Deg(RainGearPrecipitation))
        accessories ==
            accessoriesLiteral(tier)
            \o (IF rain THEN <<"Umbrella", "Waterproof jacket">> ELSE <<>>)
            \o (IF isHiking(activity) THEN <<"Backpack", "Water bottle">> ELSE <<>>)
        footwear == IF isHiking(activity) THEN "Hiking boots" ELSE tierFootwear(tier)
        notes == IF rain THEN "Expect rain, bring waterproof gear" ELSE ""
    IN  [location |-> w.location,
         temperature |-> w.temperature,
         conditions |-> w.conditions,
         recommendations |->
            [layers |-> tierLayers(tier),
             accessories |-> accessories,
             footwear |-> footwear,
             notes |-> IF notes /= "" THEN notes
                       ELSE "Dress comfortably for the conditions"]]

----------------------------------------------------------------------------
(* The tool operations, step by step *)

\* (variant: the last result instead of the first)
geocodeLocationLastResult(body) ==
    IF noFirstResult(body)
    THEN [ok |-> FALSE, error |-> "LocationNotFound"]
    ELSE [ok |-> TRUE, value |-> body.results.v[Len(body.results.v)]]

\* geocodeLocation on the provider's body: the place, or the error thrown
geocodeLocation(body) ==
    IF noFirstResult(body)
    THEN [ok |-> FALSE, error |-> "LocationNotFound"]
    ELSE [ok |-> TRUE, value |-> firstResult(body)]

SchemaDefaultDays == 3

\* z.number().min(1).max(7).default(3)
schemaDays(days) == IF days.present THEN days ELSE Some(SchemaDefaultDays)

Tools ==
    {"get-current-weather", "get-weather-forecast", "get-activity-recommendations",
     "get-weather-alerts", "get-clothing-recommendations"}

\* the call entered: its first statement awaits geocodeLocation, which issues
\* the geocoding fetch
Start(given, context) ==
    /\ pc' = "geocoding"
    /\ input' = given
    /\ args' = context
    /\ calls' = <<geocodingCall(context.location)>>
    /\ UNCHANGED <<geocodingData, geo, data, weather, result, error, scorerVars, clothingVars, translatorVars>>

ExecuteWeatherTool(location) ==
    /\ pc = "idle"
    /\ op' = "get-current-weather"
    /\ Start([location |-> location], [location |-> location])

ExecuteForecastTool(location, days) ==
    /\ pc = "idle"
    /\ op' = "get-weather-forecast"
    /\ Start([location |-> location, days |-> days],
             [location |-> location, days |-> schemaDays(days)])

ExecuteActivityTool(location, interests) ==
    /\ pc = "idle"
    /\ op' = "get-activity-recommendations"
    /\ Start([location |-> location, interests |-> interests],
             [location |-> location, interests |-> interests])

ExecuteAlertTool(location) ==
    /\ pc = "idle"
    /\ op' = "get-weather-alerts"
    /\ Start([location |-> location], [location |-> location])

ExecuteClothingTool(location, activity) ==
    /\ pc = "idle"
    /\ op' = "get-clothing-recommendations"
    /\ Start([location |-> location, activity |-> activity],
             [location |-> location, activity |-> activity])

\* the data call the operation issues once the place is known
dataCall(place) ==
    IF op = "get-weather-forecast" THEN forecastCall(place, args.days)
    ELSE currentCall(place)

\* the execution ends with an error: nothing is returned
Throw(kind) ==
    /\ pc' = "failed"
    /\ error' = kind

\* (variant: the rejected call is issued again)
GeocodeRetries ==
    /\ pc = "geocoding"
    /\ Len(calls) < 3
    /\ calls' = Append(calls, geocodingCall(args.location))
    /\ UNCHANGED <<pc, op, input, args, geocodingData, geo, data, weather, result, error, scorerVars, clothingVars, translatorVars>>

\* fetch(geocodingUrl) rejects, or geocodingResponse.json() does
GeocodeRejects ==
    /\ pc = "geocoding"
    /\ Throw("FetchError")
    /\ UNCHANGED <<op, input, args, calls, geocodingData, geo, data, weather, result, scorerVars, clothingVars, translatorVars>>

\* the geocoding provider answers and geocodingResponse.json() yields the body
GeocodeResponds(body) ==
    /\ pc = "geocoding"
    /\ geocodingData' = body
    /\ pc' = "geocoded"
    /\ UNCHANGED <<op, input, args, calls, geo, data, weather, result, error, scorerVars, clothingVars, translatorVars>>

\* geocodeLocation throws or returns the place, and with the place its caller
\* issues the data fetch
GeocodeReturns ==
    /\ pc = "geocoded"
    /\ geocodingData' = Null
    /\ LET r == geocodeLocation(geocodingData) IN
       IF r.ok
       THEN /\ geo' = r.value
            /\ calls' = Append(calls, dataCall(r.value))
            /\ pc' = "fetching"
            /\ UNCHANGED error
       ELSE /\ Throw(r.error)
            /\ UNCHANGED <<geo, calls>>
    /\ UNCHANGED <<op, input, args, data, weather, result, scorerVars, clothingVars, translatorVars>>

\* fetch(weatherUrl) or fetch(forecastUrl) rejects, or response.json() does
DataRejects ==
    /\ pc = "fetching"
    /\ Throw("FetchError")
    /\ UNCHANGED <<op, input, args, calls, geocodingData, geo, data, weather, result, scorerVars, clothingVars, translatorVars>>

\* what the tool returns from the weather record
derive(w) ==
    CASE op = "get-current-weather" -> w
      [] op = "get-activity-recommendations" -> activityResult(w, args.interests)
      [] op = "get-weather-alerts" -> alertsResult(w)
      [] op = "get-clothing-recommendations" -> clothingResult(w, args.activity)

\* the weather provider answers the `current=` request with a body
CurrentResponds(body) ==
    /\ pc = "fetching"
    /\ op /= "get-weather-forecast"
    /\ data' = body
    /\ IF body.current.present
       THEN /\ weather' = weatherRecord(body.current.v, geo)
            /\ result' = derive(weather')
            /\ pc' = "done"
            /\ UNCHANGED error
       ELSE /\ Throw("TypeError")
            /\ UNCHANGED <<weather, result>>
    /\ UNCHANGED <<op, input, args, calls, geocodingData, geo, scorerVars, clothingVars, translatorVars>>

\* the weather provider answers the `daily=` request with a body
ForecastResponds(body) ==
    /\ pc = "fetching"
    /\ op = "get-weather-forecast"
    /\ body \in ForecastBodies(calls[Len(calls)])
    /\ data' = body
    /\ IF body.daily.present
       THEN /\ result' = forecastResult(body.daily.v, geo)
            /\ pc' = "done"
            /\ UNCHANGED error
       ELSE /\ Throw("TypeError")
            /\ UNCHANGED result
    /\ UNCHANGED <<op, input, args, calls, geocodingData, geo, weather, scorerVars, clothingVars, translatorVars>>

\* the caller has the result or the error; the next request starts afresh
Return ==
    /\ pc \in {"done", "failed"}
    /\ pc' = "idle"
    /\ op' = "none"
    /\ input' = Null
    /\ args' = Null
    /\ calls' = <<>>
    /\ geocodingData' = Null
    /\ geo' = Null
    /\ data' = Null
    /\ weather' = Null
    /\ result' = Null
    /\ error' = NoError
    /\ UNCHANGED <<scorerVars, clothingVars, translatorVars>>

Init ==
    /\ pc = "idle"
    /\ op = "none"
    /\ input = Null
    /\ args = Null
    /\ calls = <<>>
    /\ geocodingData = Null
    /\ geo = Null
    /\ data = Null
    /\ weather = Null
    /\ result = Null
    /\ error = NoError
    /\ scorer = "none"
    /\ results = Null
    /\ score = NoScore
    /\ clothingLog = <<>>
    /\ literalArrays = [tier \in 1..4 |-> tierAccessories(tier)]
    /\ translated = Null

----------------------------------------------------------------------------
(* The scorers' generateScore (weather-scorer.ts) *)

(* Scores, base values and confidences count hundredths: 0.8 is 80.  What     *)
(* generateScore returns is a JavaScript value: a number, NaN, or (when a     *)
(* table lookup finds a member inherited from Object.prototype) a function.   *)
Num(n) == <<"number", n>>
NaN == <<"NaN">>
Fn == <<"function">>
JsUndefined == <<"undefined">>

isNumber(x) == x[1] = "number"
valueOf(x) == x[2]

\* names every object literal inherits from Object.prototype
ObjectPrototypeKeys == {"constructor", "toString", "valueOf", "hasOwnProperty"}

toolScoreMap == [excellent |-> 100, good |-> 80, fair |-> 50, poor |-> 20]
completenessScoreMap ==
    [complete |-> 100, mostly_complete |-> 80, partial |-> 50, incomplete |-> 20]
relevanceScoreMap ==
    [highly_relevant |-> 100, relevant |-> 80, somewhat_relevant |-> 50, irrelevant |-> 20]

\* scoreMap[key]: an own entry, an inherited member, or undefined
lookup(scoreMap, key) ==
    IF key \in DOMAIN scoreMap THEN Num(scoreMap[key])
    ELSE IF key \in ObjectPrototypeKeys THEN Fn
    ELSE JsUndefined

\* value || 0.5 (every entry of the tables is non-zero, a function is truthy)
orDefault(value) == IF value = JsUndefined THEN Num(50) ELSE value

\* (variant: the confidence is not read)
confidenceOrOneAlwaysOne(confidence) == 100

\* confidence ?? 1
confidenceOrOne(confidence) == IF confidence.present THEN confidence.v ELSE 100

\* baseScore * confidence: a function operand converts to NaN
times(base, confidence) ==
    IF isNumber(base) THEN Num((valueOf(base) * confidence) \div 100) ELSE NaN

\* Math.max(0, Math.min(1, x)): NaN stays NaN
clampUnit(x) == IF isNumber(x) THEN Num(Max(0, Min(100, valueOf(x)))) ELSE NaN

\* an analyze result none of whose fields is present: {}
EmptyObject ==
    [appropriateness |-> Undefined, completeness |-> Undefined, relevance |-> Undefined,
     detectedLanguage |-> Undefined, translationConsistency |-> Undefined,
     toolsUsedEnglish |-> None, confidence |-> None]

\* (results as any)?.analyzeStepResult || {}
analyzeStepResultOf(res) ==
    IF res = Null THEN EmptyObject
    ELSE IF ~res.analyzeStepResult.present THEN EmptyObject
    ELSE res.analyzeStepResult.v

\* a missing boolean is falsy
truthy(flag) == flag.present /\ flag.v

toolGenerateScore(res) ==
    LET r == analyzeStepResultOf(res)
        baseScore == orDefault(lookup(toolScoreMap, r.appropriateness))
    IN  clampUnit(times(baseScore, confidenceOrOne(r.confidence)))

completenessGenerateScore(res) ==
    LET r == analyzeStepResultOf(res)
    IN  orDefault(lookup(completenessScoreMap, r.completeness))

translationBaseScore(r) ==
    IF r.translationConsistency = "consistent" /\ truthy(r.toolsUsedEnglish) THEN 100
    ELSE IF r.translationConsistency = "mostly_consistent" /\ truthy(r.toolsUsedEnglish)
    THEN 80
    ELSE IF r.translationConsistency = "inconsistent" \/ ~truthy(r.toolsUsedEnglish)
    THEN 30
    ELSE 50

translationGenerateScore(res) ==
    LET r == analyzeStepResultOf(res)
    IN  IF r.detectedLanguage = "english" THEN Num(100)
        ELSE clampUnit(times(Num(translationBaseScore(r)), confidenceOrOne(r.confidence)))

relevanceGenerateScore(res) ==
    LET r == analyzeStepResultOf(res)
    IN  orDefault(lookup(relevanceScoreMap, r.relevance))

(* Inputs: what the analyze step may have left in `results` *)

ConfidenceInputs == {None, Some(-50), Some(0), Some(50), Some(100), Some(150)}
UnknownVerdicts == {Undefined, "bogus", "constructor"}
LanguageInputs == {"english", "non-english", "mixed", "unknown", Undefined}
ConsistencyInputs ==
    {"consistent", "mostly_consistent", "inconsistent", "bogus", Undefined}
FlagInputs == {None, Some(TRUE), Some(FALSE)}

\* `results` itself missing, its analyzeStepResult missing, or an object
ResultsOf(objects) ==
    {Null, [analyzeStepResult |-> None]} \cup
    {[analyzeStepResult |-> Some(r)] : r \in objects}

ToolAnalyzeResults ==
    ResultsOf({[EmptyObject EXCEPT !.appropriateness = v, !.confidence = c] :
                 v \in DOMAIN toolScoreMap \cup UnknownVerdicts, c \in ConfidenceInputs})

CompletenessAnalyzeResults ==
    ResultsOf({[EmptyObject EXCEPT !.completeness = v, !.confidence = c] :
                 v \in DOMAIN completenessScoreMap \cup UnknownVerdicts,
                 c \in ConfidenceInputs})

TranslationAnalyzeResults ==
    ResultsOf({[EmptyObject EXCEPT !.detectedLanguage = l, !.translationConsistency = v,
                                   !.toolsUsedEnglish = f, !.confidence = c] :
                 l \in LanguageInputs, v \in ConsistencyInputs,
                 f \in FlagInputs, c \in ConfidenceInputs})

RelevanceAnalyzeResults ==
    ResultsOf({[EmptyObject EXCEPT !.relevance = v, !.confidence = c] :
                 v \in DOMAIN relevanceScoreMap \cup UnknownVerdicts,
                 c \in ConfidenceInputs})

\* generateScore was given `res` and returned `value`
Returned(res, value) ==
    /\ results' = res
    /\ score' = value
    /\ UNCHANGED <<toolVars, clothingVars, translatorVars>>

ScoreToolCallAppropriateness(res) ==
    /\ scorer' = "Tool Call Appropriateness"
    /\ Returned(res, toolGenerateScore(res))

ScoreCompleteness(res) ==
    /\ scorer' = "Response Completeness"
    /\ Returned(res, completenessGenerateScore(res))

ScoreTranslation(res) ==
    /\ scorer' = "Location Translation Quality"
    /\ Returned(res, translationGenerateScore(res))

ScoreActivityRelevance(res) ==
    /\ scorer' = "Activity Recommendation Relevance"
    /\ Returned(res, relevanceGenerateScore(res))

ScorerNext ==
    \/ \E res \in ToolAnalyzeResults : ScoreToolCallAppropriateness(res)
    \/ \E res \in CompletenessAnalyzeResults : ScoreCompleteness(res)
    \/ \E res \in TranslationAnalyzeResults : ScoreTranslation(res)
    \/ \E res \in RelevanceAnalyzeResults : ScoreActivityRelevance(res)

ScorerSpec == Init /\ [][ScorerNext]_vars

Next ==
    \/ \E l \in LocationInputs : ExecuteWeatherTool(l)
    \/ \E l \in LocationInputs, d \in DaysInputs : ExecuteForecastTool(l, d)
    \/ \E l \in LocationInputs, i \in InterestsInputs : ExecuteActivityTool(l, i)
    \/ \E l \in LocationInputs : ExecuteAlertTool(l)
    \/ \E l \in LocationInputs, a \in ActivityInputs : ExecuteClothingTool(l, a)
    \/ GeocodeRejects
    \/ \E body \in GeocodingBodies : GeocodeResponds(body)
    \/ GeocodeReturns
    \/ DataRejects
    \/ \E body \in CurrentBodies : CurrentResponds(body)
    \/ \E body \in AllForecastBodies : ForecastResponds(body)
    \/ Return

Spec == Init /\ [][Next]_vars

----------------------------------------------------------------------------
(* getClothingRecommendations called several times in a row *)

\* the most calls made in a row
MaxCalls == 3

\* the weather records getCurrentWeather hands the recommender: two rungs of
\* the temperature ladder, without and with rain
ClothingReadings ==
    {weatherRecord(currentObject(t, 3000, 0, p), place) :
        t \in {1500, 2500}, p \in {500, 501},
        place \in {q \in Places : q.country = "France"}}

\* one call: the body of getClothingRecommendations on the record `w`; the
\* array its accessories literal evaluated to ends up holding what the call
\* pushed
GetClothingRecommendations(w, activity) ==
    /\ Len(clothingLog) < MaxCalls
    /\ LET output == clothingResult(w, activity)
       IN  /\ clothingLog' =
                 Append(clothingLog,
                        [weather |-> w, activity |-> activity, output |-> output])
           /\ literalArrays' =
                 [literalArrays EXCEPT
                    ![temperatureTier(w)] = output.recommendations.accessories]
    /\ UNCHANGED <<toolVars, scorerVars, translatorVars>>

ClothingNext ==
    \E w \in ClothingReadings, a \in ActivityInputs : GetClothingRecommendations(w, a)

ClothingSpec == Init /\ [][ClothingNext]_vars

----------------------------------------------------------------------------
(* getWeatherCondition on its own *)

\* the largest weather code tried
MaxCode == 105

\* integer codes, those of the table and others on both sides of it
CodeInputs == (-5)..MaxCode

GetWeatherCondition(code) ==
    /\ translated' = [code |-> code, label |-> getWeatherCondition(code)]
    /\ UNCHANGED <<toolVars, scorerVars, clothingVars>>

TranslatorNext == \E code \in CodeInputs : GetWeatherCondition(code)

TranslatorSpec == Init /\ [][TranslatorNext]_vars

----------------------------------------------------------------------------
(* Properties of the tool operations *)

ActivityDone == pc = "done" /\ op = "get-activity-recommendations"
AlertsDone == pc = "done" /\ op = "get-weather-alerts"
ClothingDone == pc = "done" /\ op = "get-clothing-recommendations"
ForecastDone == pc = "done" /\ op = "get-weather-forecast"

\* the activity named `name` is recommended with suitability `suitability`
Recommended(name, suitability) ==
    \E i \in 1..Len(result.recommendations) :
        /\ result.recommendations[i].activity = name
        /\ result.recommendations[i].suitability = suitability

\* the recommendations as <<activity, suitability>> pairs, in order
RecommendedPairs ==
    [i \in 1..Len(result.recommendations) |->
        <<result.recommendations[i].activity, result.recommendations[i].suitability>>]

\* the provider answered weather_code = 0, temperature = 22, precipitation <= 5
ParisScenario ==
    /\ ActivityDone
    /\ data.current.v.weather_code = 0
    /\ data.current.v.temperature_2m = Deg(22)
    /\ le(data.current.v.precipitation, Deg(5))

(* C1, as stated: in the scenario (weather_code 0, temperature 22,           *)
(* precipitation not above 5) conditions is "Clear sky", Beach and Hiking    *)
(* are recommended as "excellent" and Museum, Shopping and Restaurant as     *)
(* "good".                                                                   *)
C1_ScenarioAsStated ==
    ParisScenario =>
        /\ weather.conditions = "Clear sky"
        /\ Recommended("Beach", "excellent")
        /\ Recommended("Hiking", "excellent")
        /\ Recommended("Museum", "good")
        /\ Recommended("Shopping", "good")
        /\ Recommended("Restaurant", "good")

(* C1, amended: in the scenario conditions is "Clear sky" and the            *)
(* recommendations are exactly Hiking (excellent), Beach (good), Cycling     *)
(* (excellent), Picnic (excellent), Museum (excellent), in that order;       *)
(* Shopping and Restaurant are cut by the limit of five.                     *)
C1_Scenario ==
    ParisScenario =>
        /\ weather.conditions = "Clear sky"
        /\ result.currentConditions = "Clear sky"
        /\ RecommendedPairs =
              << <<"Hiking", "excellent">>, <<"Beach", "good">>,
                 <<"Cycling", "excellent">>, <<"Picnic", "excellent">>,
                 <<"Museum", "excellent">> >>

C1_Witness == ParisScenario /\ input.location = "Paris"

\* the catalog's temperature range of the activity named `name`, in degrees
CatalogRange(name) ==
    LET k == CHOOSE j \in 1..Len(allActivities) : allActivities[j].activity = name
    IN  allActivities[k].tempRange

(* C5: the activity recommender returns at most 5 recommendations, every     *)
(* returned activity has min <= temperature <= max for its catalog range,    *)
(* and a temperature equal to a bound of an activity's range does not        *)
(* exclude it: when its conditions allow it, it is returned.                 *)
C5_RangeAndCount ==
    ActivityDone =>
        /\ Len(result.recommendations) <= 5
        /\ \A i \in 1..Len(result.recommendations) :
              LET range == CatalogRange(result.recommendations[i].activity)
              IN  /\ Deg(range[1]) <= result.temperature
                  /\ result.temperature <= Deg(range[2])
        /\ \A k \in 1..Len(allActivities) :
              LET act == allActivities[k]
              IN  ( /\ result.temperature \in {Deg(act.tempRange[1]), Deg(act.tempRange[2])}
                    /\ conditionsSuitable(act, weather) )
                  => \E i \in 1..Len(result.recommendations) :
                        result.recommendations[i].activity = act.activity

C5_Witness ==
    /\ ActivityDone
    /\ result.temperature = Deg(20)
    /\ Len(result.recommendations) = 5
    /\ \E i \in 1..Len(result.recommendations) :
          result.recommendations[i].activity = "Beach"

(* C6, as stated: at a temperature of exactly 0, 10 or 20 the clothing       *)
(* recommender selects the lower of the two tiers meeting there (the tier    *)
(* for temperatures below the threshold).                                    *)
C6_LowerTierAsStated ==
    ClothingDone =>
        /\ result.temperature = Deg(0) =>
              result.recommendations.layers =
                 <<"Thermal base layer", "Insulated mid-layer", "Waterproof jacket">>
        /\ result.temperature = Deg(10) =>
              result.recommendations.layers =
                 <<"Long-sleeve shirt", "Fleece or sweater", "Light jacket">>
        /\ result.temperature = Deg(20) =>
              result.recommendations.layers = <<"T-shirt", "Light jacket or hoodie">>

(* C6, amended: at a temperature of exactly 0, 10 or 20 the clothing         *)
(* recommender selects the upper of the two tiers meeting there (the tier    *)
(* for temperatures at or above the threshold): the `< 10` tier at 0, the    *)
(* `< 20` tier at 10, the else tier at 20.                                   *)
C6_UpperTier ==
    ClothingDone =>
        /\ result.temperature = Deg(0) =>
              result.recommendations.layers =
                 <<"Long-sleeve shirt", "Fleece or sweater", "Light jacket">>
        /\ result.temperature = Deg(10) =>
              result.recommendations.layers = <<"T-shirt", "Light jacket or hoodie">>
        /\ result.temperature = Deg(20) =>
              result.recommendations.layers = <<"T-shirt or light top">>

C6_Witness == ClothingDone /\ result.temperature = Deg(10)

\* the alerts whose event is `event`
AlertsOf(event) ==
    {i \in 1..Len(result.alerts) : result.alerts[i].event = event}

(* C7, as stated: a reading with precipitation exactly 20 produces no alert  *)
(* (alerts empty, hasAlerts false); precipitation 20.01 produces exactly     *)
(* one alert, Heavy Rain with severity "moderate".                           *)
C7_ThresholdAsStated ==
    AlertsDone =>
        /\ weather.precipitation = 2000 =>
              result.alerts = <<>> /\ ~result.hasAlerts
        /\ weather.precipitation = 2001 =>
              /\ Len(result.alerts) = 1
              /\ result.alerts[1].event = "Heavy Rain"
              /\ result.alerts[1].severity = "moderate"

(* C7, amended: a reading with precipitation exactly 20 produces no Heavy    *)
(* Rain alert, and no alert at all when its wind speed is not above 30;      *)
(* precipitation 20.01 produces exactly one Heavy Rain alert, of severity    *)
(* "moderate" and first in the list, which is the only alert when the wind   *)
(* speed is not above 30.                                                    *)
C7_Threshold ==
    AlertsDone =>
        /\ weather.precipitation = 2000 =>
              /\ AlertsOf("Heavy Rain") = {}
              /\ le(weather.windSpeed, 3000) =>
                    result.alerts = <<>> /\ ~result.hasAlerts
        /\ weather.precipitation = 2001 =>
              /\ AlertsOf("Heavy Rain") = {1}
              /\ result.alerts[1].severity = "moderate"
              /\ result.hasAlerts
              /\ le(weather.windSpeed, 3000) => Len(result.alerts) = 1

C7_Witness ==
    /\ AlertsDone
    /\ weather.precipitation = 2001
    /\ weather.windSpeed = 3000

\* the number of days the caller asked for
RequestedDays == IF input.days.present THEN input.days.v ELSE 3

(* C8: for days in 1..7 (3 when omitted) the forecast holds exactly `days`   *)
(* entries, in ascending date order, entry i built from index i of each      *)
(* provider array, the weather code mapped through getWeatherCondition.      *)
C8_Forecast ==
    ForecastDone =>
        LET daily == data.daily.v
            forecast == result.forecast
        IN  /\ Len(forecast) = RequestedDays
            /\ \A i \in 1..Len(forecast) :
                  forecast[i] =
                     [date |-> daily.time[i],
                      high |-> daily.temperature_2m_max[i],
                      low |-> daily.temperature_2m_min[i],
                      conditions |-> getWeatherCondition(daily.weather_code[i]),
                      precipitationChance |-> daily.precipitation_probability_max[i],
                      windSpeed |-> daily.wind_speed_10m_max[i],
                      uvIndex |-> daily.uv_index_max[i]]
            /\ \A i, j \in 1..Len(forecast) :
                  i < j => forecast[i].date < forecast[j].date

C8_Witness ==
    /\ ForecastDone
    /\ input.days = Some(7)
    /\ Len(result.forecast) = 7

\* what holds of the calls issued so far, in every state
CallsInOrder ==
    /\ Len(calls) <= 2
    /\ Len(calls) >= 1 => calls[1].api = "geocoding"
    /\ Len(calls) = 2 => calls[2].api = "forecast" /\ geo /= Null
    /\ pc \in {"geocoding", "geocoded"} => Len(calls) = 1 /\ geo = Null
    /\ pc = "fetching" => Len(calls) = 2 /\ data = Null
    /\ pc = "failed" => result = Null /\ error /= NoError

\* what holds of every step: a call is only ever added, one at a time; a step
\* that fails adds none, and after a failure none is added
CallsStep ==
    /\ \/ calls' = calls
       \/ calls' = <<>>
       \/ Len(calls') = Len(calls) + 1 /\ SubSeq(calls', 1, Len(calls)) = calls
    /\ pc' = "failed" => calls' = calls
    /\ pc = "failed" => calls' = calls \/ (pc' = "idle" /\ calls' = <<>>)
    /\ (pc = "geocoding" /\ pc' /= "geocoding") => pc' \in {"geocoded", "failed"}
    /\ (pc = "geocoded" /\ pc' /= "geocoded") => pc' \in {"fetching", "failed"}
    /\ Len(calls') = 2 /\ Len(calls) = 1 => pc = "geocoded" /\ geo' /= Null
    /\ (pc = "fetching" /\ pc' /= "fetching") => pc' \in {"done", "failed"}

(* C9: an execution of a tool issues at most two outbound calls, in          *)
(* sequence: the geocoding call first, the weather-data call only after the  *)
(* geocoding call returned a result; no call is issued twice, and a failing  *)
(* call ends the operation in an error with no further call.                 *)
C9_CallDiscipline == [](CallsInOrder) /\ [][CallsStep]_vars

C9_Witness == pc = "failed" /\ Len(calls) = 2 /\ error = "FetchError"

\* geocodeLocation's outcome on the body it read: the step that leaves it
GeocodeOutcome ==
    pc = "geocoded" =>
        IF ~geocodingData.results.present \/ geocodingData.results.v = <<>>
        THEN /\ pc' = "failed"
             /\ error' = "LocationNotFound"
             /\ geo' = Null
             /\ calls' = calls
        ELSE /\ pc' = "fetching"
             /\ geo' = geocodingData.results.v[1]
             /\ error' = NoError

\* an operation that ended with the not-found error returned nothing and
\* issued no data call
NotFoundReturnsNothing ==
    error = "LocationNotFound" =>
        /\ pc = "failed"
        /\ geo = Null
        /\ data = Null
        /\ weather = Null
        /\ result = Null
        /\ Len(calls) = 1

(* C10: geocodeLocation fails with the not-found error when the provider     *)
(* returns no result (results missing or empty), and then the operation      *)
(* returns no weather record, forecast, recommendation or alert; otherwise   *)
(* it returns the first result, in the provider's order.                     *)
C10_Geocode == [](NotFoundReturnsNothing) /\ [][GeocodeOutcome]_vars

C10_Witness ==
    /\ pc = "failed"
    /\ error = "LocationNotFound"
    /\ result = Null
    /\ Len(calls) = 1

\* the weather record holds a value in every required field
CompleteRecord(w) ==
    /\ isDefined(w.temperature)
    /\ isDefined(w.feelsLike)
    /\ isDefined(w.humidity)
    /\ isDefined(w.windSpeed)
    /\ isDefined(w.windGust)
    /\ isDefined(w.precipitation)
    /\ w.conditions /= Undefined
    /\ w.location /= Undefined
    /\ w.country /= Undefined

\* the body lacks the `current` object or a required field of it
MalformedPayload(body) ==
    \/ ~body.current.present
    \/ \E f \in RequiredCurrentFields : ~isDefined(body.current.v[f])

\* the operation read the body of a `current=` request
CurrentRead == op /= "get-weather-forecast" /\ data /= Null

(* C11: getCurrentWeather either returns a weather record whose required     *)
(* fields (temperature, feelsLike, humidity, windSpeed, windGust,            *)
(* precipitation, conditions, location, country) are all present, or fails   *)
(* with an error; when the data call fails or its payload is malformed (the  *)
(* `current` object or a required field of it missing) the call fails and    *)
(* no record is returned.                                                    *)
C11_NoPartialResult ==
    /\ weather /= Null => CompleteRecord(weather)
    /\ (CurrentRead /\ MalformedPayload(data)) =>
          pc = "failed" /\ weather = Null /\ result = Null
    /\ pc = "failed" => error /= NoError /\ weather = Null /\ result = Null

(* C12: the interests parameter does not influence the activity             *)
(* recommender: for the weather reading of a completed call, the call made   *)
(* with any other value of interests (absent and empty included) returns     *)
(* the same location, conditions, temperature and the same recommendations   *)
(* in the same order.                                                        *)
C12_InterestsIgnored ==
    ActivityDone =>
        \A i \in InterestsInputs :
            LET other == activityResult(weather, i)
            IN  /\ other.location = result.location
                /\ other.currentConditions = result.currentConditions
                /\ other.temperature = result.temperature
                /\ other.recommendations = result.recommendations

C12_Witness ==
    /\ ActivityDone
    /\ input.interests = Some(<<"Museum">>)
    /\ Len(result.recommendations) = 5
    /\ result.recommendations[1].activity = "Hiking"

\* the call made i-th in the row
Call(i) == clothingLog[i]

\* the accessories the i-th call returned
AccessoriesOf(i) == Call(i).output.recommendations.accessories

(* C13: two calls of getClothingRecommendations with the same weather        *)
(* reading and the same activity argument return identical output (layers,   *)
(* accessories in order, footwear, notes), whatever calls were made before   *)
(* or in between; no call observes what an earlier call appended: rain gear  *)
(* is in the accessories only of a call whose own reading has precipitation  *)
(* above 5, hiking gear only of a call whose own activity names hiking, and  *)
(* nothing is listed twice.                                                  *)
C13_Deterministic ==
    /\ \A i, j \in 1..Len(clothingLog) :
          (Call(i).weather = Call(j).weather /\ Call(i).activity = Call(j).activity)
             => Call(i).output = Call(j).output
    /\ \A i \in 1..Len(clothingLog) :
          /\ listIncludes(AccessoriesOf(i), "Umbrella")
                => gt(Call(i).weather.precipitation, Deg(5))
          /\ listIncludes(AccessoriesOf(i), "Backpack") => isHiking(Call(i).activity)
          /\ \A m, n \in 1..Len(AccessoriesOf(i)) :
                AccessoriesOf(i)[m] = AccessoriesOf(i)[n] => m = n

\* a dry call without activity, then a rainy hiking call on the same rung,
\* then the first call again
C13_Witness ==
    /\ Len(clothingLog) = 3
    /\ Call(1).activity = None
    /\ Call(1).weather.precipitation = 500
    /\ isHiking(Call(2).activity)
    /\ Call(2).weather.precipitation = 501
    /\ Call(2).weather.temperature = Call(1).weather.temperature
    /\ Call(3).weather = Call(1).weather
    /\ Call(3).activity = Call(1).activity
    /\ AccessoriesOf(3) = AccessoriesOf(1)

\* the translation table: the fixed label of every known code
FixedLabels ==
    (0 :> "Clear sky") @@ (1 :> "Mainly clear") @@ (2 :> "Partly cloudy") @@
    (3 :> "Overcast") @@ (45 :> "Foggy") @@ (48 :> "Depositing rime fog") @@
    (51 :> "Light drizzle") @@ (53 :> "Moderate drizzle") @@ (55 :> "Dense drizzle") @@
    (56 :> "Light freezing drizzle") @@ (57 :> "Dense freezing drizzle") @@
    (61 :> "Slight rain") @@ (63 :> "Moderate rain") @@ (65 :> "Heavy rain") @@
    (66 :> "Light freezing rain") @@ (67 :> "Heavy freezing rain") @@
    (71 :> "Slight snow fall") @@ (73 :> "Moderate snow fall") @@
    (75 :> "Heavy snow fall") @@ (77 :> "Snow grains") @@
    (80 :> "Slight rain showers") @@ (81 :> "Moderate rain showers") @@
    (82 :> "Violent rain showers") @@ (85 :> "Slight snow showers") @@
    (86 :> "Heavy snow showers") @@ (95 :> "Thunderstorm") @@
    (96 :> "Thunderstorm with slight hail") @@ (99 :> "Thunderstorm with heavy hail")

(* C14: getWeatherCondition is total: for every weather code of the          *)
(* translation table it returns that code's fixed label (0 -> "Clear sky",   *)
(* 99 -> "Thunderstorm with heavy hail"), for every other integer code it    *)
(* returns "Unknown"; it never fails.                                        *)
C14_Total ==
    translated /= Null =>
        /\ translated.code \in DOMAIN FixedLabels =>
              translated.label = FixedLabels[translated.code]
        /\ translated.code \notin DOMAIN FixedLabels => translated.label = "Unknown"
        /\ translated.code = 0 => translated.label = "Clear sky"
        /\ translated.code = 99 => translated.label = "Thunderstorm with heavy hail"

C14_Witness ==
    /\ translated /= Null
    /\ translated.code = 100
    /\ translated.label = "Unknown"

\* the temperature read is at least 5 degrees inside both bounds of the
\* catalog range of the activity named `name`
WellInside(name) ==
    /\ ge(weather.temperature, Deg(CatalogRange(name)[1] + 5))
    /\ le(weather.temperature, Deg(CatalogRange(name)[2] - 5))

(* C15: every recommended activity has suitability "excellent" when          *)
(* min+5 <= temperature <= max-5 for its catalog range, otherwise "fair"     *)
(* when precipitation > 5, otherwise "good"; "poor" is never produced, and   *)
(* a precipitation above 5 never lowers an activity that is at least 5       *)
(* degrees inside both range bounds.                                         *)
C15_Suitability ==
    ActivityDone =>
        \A i \in 1..Len(result.recommendations) :
            LET rec == result.recommendations[i]
            IN  /\ rec.suitability =
                      IF WellInside(rec.activity) THEN "excellent"
                      ELSE IF gt(weather.precipitation, Deg(5)) THEN "fair"
                      ELSE "good"
                /\ rec.suitability /= "poor"
                /\ (gt(weather.precipitation, Deg(5)) /\ WellInside(rec.activity))
                      => rec.suitability = "excellent"

C15_Witness ==
    /\ ActivityDone
    /\ weather.precipitation = 2001
    /\ Recommended("Hiking", "excellent")
    /\ Recommended("Beach", "fair")

(* C16: getWeatherAlerts returns at most two alerts with no event repeated;  *)
(* a "Heavy Rain" alert is present iff precipitation > 20 and a "High        *)
(* Winds" alert, of severity "severe", iff windSpeed > 30; when both are     *)
(* present Heavy Rain precedes High Winds; hasAlerts is true iff the list is *)
(* non-empty.                                                                *)
C16_AlertShape ==
    AlertsDone =>
        /\ Len(result.alerts) <= 2
        /\ \A i, j \in 1..Len(result.alerts) :
              result.alerts[i].event = result.alerts[j].event => i = j
        /\ \A i \in 1..Len(result.alerts) :
              result.alerts[i].event \in {"Heavy Rain", "High Winds"}
        /\ AlertsOf("Heavy Rain") /= {} <=> gt(weather.precipitation, Deg(20))
        /\ AlertsOf("High Winds") /= {} <=> gt(weather.windSpeed, Deg(30))
        /\ \A i \in AlertsOf("High Winds") : result.alerts[i].severity = "severe"
        /\ \A i \in AlertsOf("Heavy Rain"), j \in AlertsOf("High Winds") : i < j
        /\ result.hasAlerts <=> Len(result.alerts) > 0

C16_Witness ==
    /\ AlertsDone
    /\ Len(result.alerts) = 2
    /\ result.alerts[1].event = "Heavy Rain"
    /\ result.alerts[2].event = "High Winds"

\* the activity named `name` is among the recommendations returned
Returns(name) ==
    \E i \in 1..Len(result.recommendations) : result.recommendations[i].activity = name

\* how many of the four outdoor activities (the first four of the catalog)
\* pass the filter for the reading
OutdoorSurvivors ==
    Cardinality({k \in 1..4 :
        /\ tempSuitable(allActivities[k], weather)
        /\ conditionsSuitable(allActivities[k], weather)})

(* C17: with the list cut to the first five survivors in catalog order       *)
(* (Hiking, Beach, Cycling, Picnic, Museum, Shopping, Restaurant), "Museum"  *)
(* is returned iff -10 <= temperature <= 40, the list is empty iff the       *)
(* temperature is outside [-10, 40], "Shopping" is returned only when at     *)
(* most three of the four outdoor activities survive the filter and          *)
(* "Restaurant" only when at most two do.                                    *)
C17_Truncation ==
    ActivityDone =>
        LET inRange == ge(weather.temperature, Deg(-10)) /\ le(weather.temperature, Deg(40))
        IN  /\ Returns("Museum") <=> inRange
            /\ result.recommendations = <<>> <=> ~inRange
            /\ Returns("Shopping") => OutdoorSurvivors <= 3
            /\ Returns("Restaurant") => OutdoorSurvivors <= 2
            /\ \A i, j \in 1..Len(result.recommendations) :
                  i < j =>
                     \E m, n \in 1..Len(allActivities) :
                        /\ m < n
                        /\ allActivities[m].activity = result.recommendations[i].activity
                        /\ allActivities[n].activity = result.recommendations[j].activity

C17_Witness ==
    /\ ActivityDone
    /\ OutdoorSurvivors = 3
    /\ Returns("Shopping")
    /\ ~Returns("Restaurant")
    /\ Len(result.recommendations) = 5

----------------------------------------------------------------------------
(* Properties of the scorers *)

ToolScorer == "Tool Call Appropriateness"
CompletenessScorer == "Response Completeness"
TranslationScorer == "Location Translation Quality"
RelevanceScorer == "Activity Recommendation Relevance"

\* the analyze result generateScore read
Analyzed == analyzeStepResultOf(results)

\* the categorical verdict the scorer that ran maps to a number
Verdict ==
    CASE scorer = ToolScorer -> Analyzed.appropriateness
      [] scorer = CompletenessScorer -> Analyzed.completeness
      [] scorer = TranslationScorer -> Analyzed.translationConsistency
      [] scorer = RelevanceScorer -> Analyzed.relevance

\* the fixed value of each verdict of the scorer that ran, in hundredths
VerdictTable ==
    CASE scorer = ToolScorer ->
            [excellent |-> 100, good |-> 80, fair |-> 50, poor |-> 20]
      [] scorer = CompletenessScorer ->
            [complete |-> 100, mostly_complete |-> 80, partial |-> 50, incomplete |-> 20]
      [] scorer = TranslationScorer ->
            [consistent |-> 100, mostly_consistent |-> 80, inconsistent |-> 30]
      [] scorer = RelevanceScorer ->
            [highly_relevant |-> 100, relevant |-> 80, somewhat_relevant |-> 50,
             irrelevant |-> 20]

KnownVerdict == Verdict \in DOMAIN VerdictTable

\* a verdict that names neither an entry of the table nor a member every
\* object inherits
ForeignVerdict ==
    /\ Verdict \notin DOMAIN VerdictTable
    /\ Verdict \notin {"constructor", "toString", "valueOf", "hasOwnProperty"}

(* C2, as stated: for each of the four scorers the score is the verdict's    *)
(* table value when confidence is 1, half of it when confidence is 0.5, and  *)
(* a verdict outside the enum is scored from a base of 0.5.  (For the        *)
(* translation scorer the table is read for a non-English language with      *)
(* toolsUsedEnglish true.)                                                    *)
C2_MappingAsStated ==
    ( /\ scorer /= "none"
      /\ scorer = TranslationScorer =>
            /\ Analyzed.detectedLanguage /= "english"
            /\ Analyzed.toolsUsedEnglish = Some(TRUE) )
    => /\ (KnownVerdict /\ Analyzed.confidence = Some(100))
              => score = Num(VerdictTable[Verdict])
       /\ (KnownVerdict /\ Analyzed.confidence = Some(50))
              => score = Num(VerdictTable[Verdict] \div 2)
       /\ (ForeignVerdict /\ Analyzed.confidence = Some(100)) => score = Num(50)
       /\ (ForeignVerdict /\ Analyzed.confidence = Some(50)) => score = Num(25)

\* the base the translation scorer scales by the confidence
TranslationBase ==
    IF Analyzed.toolsUsedEnglish = Some(TRUE) /\ Verdict \in {"consistent", "mostly_consistent"}
    THEN VerdictTable[Verdict]
    ELSE IF Verdict = "inconsistent" \/ Analyzed.toolsUsedEnglish /= Some(TRUE)
    THEN 30
    ELSE 50

(* C2, amended: with confidence 1 (or none) every scorer returns the         *)
(* verdict's table value; confidence 0.5 halves it only in the               *)
(* tool-appropriateness scorer and, for a language other than English, in    *)
(* the translation scorer; the completeness and activity-relevance scorers   *)
(* ignore the confidence, and the translation scorer returns 1 for English   *)
(* whatever the rest.  A verdict that is no member of the table is scored    *)
(* from a base of 0.5 in the three table scorers; in the translation scorer  *)
(* an unrecognised consistency has base 0.5 only when toolsUsedEnglish is    *)
(* true, and 0.3 otherwise.                                                   *)
C2_Mapping ==
    /\ scorer = ToolScorer =>
          /\ (KnownVerdict /\ Analyzed.confidence \in {None, Some(100)})
                => score = Num(VerdictTable[Verdict])
          /\ (KnownVerdict /\ Analyzed.confidence = Some(50))
                => score = Num(VerdictTable[Verdict] \div 2)
          /\ (ForeignVerdict /\ Analyzed.confidence \in {None, Some(100)})
                => score = Num(50)
          /\ (ForeignVerdict /\ Analyzed.confidence = Some(50)) => score = Num(25)
    /\ scorer \in {CompletenessScorer, RelevanceScorer} =>
          /\ KnownVerdict => score = Num(VerdictTable[Verdict])
          /\ ForeignVerdict => score = Num(50)
    /\ scorer = TranslationScorer =>
          IF Analyzed.detectedLanguage = "english"
          THEN score = Num(100)
          ELSE /\ Analyzed.confidence \in {None, Some(100)} => score = Num(TranslationBase)
               /\ Analyzed.confidence = Some(50) => score = Num(TranslationBase \div 2)

C2_Witness ==
    /\ scorer = CompletenessScorer
    /\ Analyzed.completeness = "mostly_complete"
    /\ Analyzed.confidence = Some(50)
    /\ score = Num(80)

\* the analyze result is missing, empty, or has neither a recognised verdict
\* nor a confidence
Malformed ==
    \/ results = Null
    \/ ~results.analyzeStepResult.present
    \/ /\ Analyzed.confidence = None
       /\ Analyzed.toolsUsedEnglish = None
       /\ Analyzed.detectedLanguage = Undefined
       /\ Verdict \in {Undefined, "bogus"}

(* C3: for every scorer, when the analyze result is missing, empty or not of *)
(* the expected shape (no recognised verdict, no confidence), generateScore  *)
(* returns exactly 0.5.                                                       *)
C3_NeutralDefault ==
    (scorer /= "none" /\ Malformed) => score = Num(50)

(* C4: every score a scorer produces lies in [0, 1], whatever the verdict,   *)
(* toolsUsedEnglish and confidence of the analyze result.                    *)
C4_UnitInterval ==
    scorer /= "none" =>
        /\ isNumber(score)
        /\ 0 <= valueOf(score)
        /\ valueOf(score) <= 100

====
